---- MODULE Spec2Model ----
(***************************************************************************)
(* A model of the document-analysis pipeline of the self-defence app:     *)
(*   document_processor.py  DocumentProcessor (extractor, analysis client, *)
(*                          validator, fallback generator, formatter)      *)
(*   routes.py              allowed_file and the /api/upload-document      *)
(*                          handler                                        *)
(*                                                                         *)
(* Python values are records tagged with their type in field t:            *)
(*   [t |-> "absent"]              the key is not in the mapping           *)
(*   [t |-> "none"]                None (JSON null)                        *)
(*   [t |-> "int",   n |-> i]      an int                                  *)
(*   [t |-> "float", tenths |-> k] the float k/10                          *)
(*   [t |-> "inf"], [t |-> "nan"]  the floats json.loads makes of          *)
(*                                 Infinity and NaN                        *)
(*   [t |-> "bool",  b |-> b]      a bool                                  *)
(*   [t |-> "str",   cs |-> seq]   a str given by its characters           *)
(*   [t |-> "str",   s |-> str]    a str given whole                       *)
(*   [t |-> "list",  items |-> q]  a list                                  *)
(*   [t |-> "dict",  d |-> f]      a dict, f a function on its key space   *)
(*                                 with "absent" for the keys not in it    *)
(***************************************************************************)
EXTENDS Integers, Sequences, FiniteSets, TLC

VARIABLES
    \* direct calls of the DocumentProcessor methods
    vphase,        \* which calls have been made
    vsource,       \* "given": raw is an input, "fallback": raw is the fallback
    raw,           \* the value handed to _validate_analysis_result
    validated,     \* outcome of the first validation
    revalidated,   \* outcome of validating the validated result again
    report,        \* outcome of format_defence_response
    \* one request to /api/upload-document
    pc,                  \* position in upload_document
    request,             \* has_document, filename, content
    session_id,          \* session['user_session'] ("" when not set)
    users,               \* User rows: the session ids they carry
    document_text,       \* the extracted text
    llm,                 \* what the LLM call did
    analysis_result,     \* what analyze_skeleton_argument returned
    formatted_response,  \* what format_defence_response returned
    documents,           \* DocumentAnalysis rows committed
    chats,               \* ChatMessage rows committed
    response,            \* the JSON payload returned
    events,              \* the calls made so far, in order
    probe                \* outcome of a direct extract_text_from_file call

vvars == <<vphase, vsource, raw, validated, revalidated, report>>

uvars == <<pc, request, session_id, users, document_text, llm, analysis_result,
           formatted_response, documents, chats, response, events, probe>>

vars == <<vphase, vsource, raw, validated, revalidated, report,
          pc, request, session_id, users, document_text, llm, analysis_result,
          formatted_response, documents, chats, response, events, probe>>

-----------------------------------------------------------------------------
(* Bounds of the model *)

\* longest claim-value string enumerated over CharAlphabet
MaxStrLen == 3

\* how many of the nine other required fields differ from the conformant
\* base mapping at once
MaxPerturbed == 1

(* Program constants *)

\* document_processor.py:177  if claim_value <= 10000
SmallClaimsLimit == 10000

\* document_processor.py:179  elif claim_value <= 25000
FastTrackLimit == 25000

\* routes.py:454  len(document_text.strip()) < 50
MinTextLength == 50

\* routes.py:476  document_text[:10000]
StoredTextLimit == 10000

-----------------------------------------------------------------------------
(* Python values *)

Absent == [t |-> "absent"]
None == [t |-> "none"]
PyInt(i) == [t |-> "int", n |-> i]
PyFloat(k) == [t |-> "float", tenths |-> k]
PyInf == [t |-> "inf"]
PyNaN == [t |-> "nan"]
PyBool(b) == [t |-> "bool", b |-> b]
PyChars(cs) == [t |-> "str", cs |-> cs]
PyStr(s) == [t |-> "str", s |-> s]
PyList(q) == [t |-> "list", items |-> q]
PyDict(f) == [t |-> "dict", d |-> f]

\* the outcome of a call: a returned value or a raised exception
Returned(v) == [raised |-> FALSE, value |-> v]
Raised(e) == [raised |-> TRUE, error |-> e]
NotRun == [raised |-> FALSE, value |-> Absent]

Digits == {"0", "1", "2", "3", "4", "5", "6", "7", "8", "9"}

DigitVal(c) ==
    CASE c = "0" -> 0 [] c = "1" -> 1 [] c = "2" -> 2 [] c = "3" -> 3
      [] c = "4" -> 4 [] c = "5" -> 5 [] c = "6" -> 6 [] c = "7" -> 7
      [] c = "8" -> 8 [] c = "9" -> 9

\* bool(v): Python truthiness of a value
Truthy(v) ==
    CASE v.t = "none" -> FALSE
      [] v.t = "absent" -> FALSE
      [] v.t = "int" -> v.n # 0
      [] v.t = "float" -> v.tenths # 0
      [] v.t = "bool" -> v.b
      [] v.t = "str" -> IF "cs" \in DOMAIN v THEN v.cs # <<>> ELSE v.s # ""
      [] v.t = "list" -> v.items # <<>>
      [] OTHER -> TRUE

-----------------------------------------------------------------------------
(* document_processor.py: the validator *)

required_fields ==
    <<"document_summary", "claim_value_estimate", "track_assessment",
      "legal_categories", "claimant_arguments", "defence_points",
      "procedural_considerations", "evidence_strategy",
      "settlement_considerations", "costs_considerations", "urgency_level">>

RequiredFieldSet == {required_fields[i] : i \in DOMAIN required_fields}

valid_tracks == {"small_claims", "fast_track", "multi_track"}

\* _get_default_value(field)
GetDefaultValue(field) ==
    CASE field = "document_summary" ->
            PyStr("Document analysis could not be completed fully")
      [] field = "claim_value_estimate" -> PyInt(0)
      [] field = "track_assessment" -> PyStr("small_claims")
      [] field = "legal_categories" -> PyList(<<PyStr("contract")>>)
      [] field = "claimant_arguments" -> PyList(<<>>)
      [] field = "defence_points" -> PyList(<<>>)
      [] field = "procedural_considerations" ->
            PyList(<<PyStr("Review all relevant deadlines and procedural requirements")>>)
      [] field = "evidence_strategy" ->
            PyList(<<PyStr("Gather all relevant documents and witness statements")>>)
      [] field = "settlement_considerations" ->
            PyStr("Consider settlement prospects based on strength of case")
      [] field = "costs_considerations" ->
            PyStr("Assess costs implications and Part 36 offer strategy")
      [] field = "urgency_level" -> PyStr("medium")
      [] OTHER -> PyStr("")

\* lines 157-159: for field in required_fields: if field not in analysis: ...
FillMissing(d) ==
    [f \in DOMAIN d |->
        IF f \in RequiredFieldSet /\ d[f].t = "absent"
        THEN GetDefaultValue(f) ELSE d[f]]

\* re.findall(r'\d+', s)[0]: the first maximal run of digits of cs, as the
\* sequence of its characters (<<>> when cs has no digit)
RECURSIVE TakeDigits(_)
TakeDigits(cs) ==
    IF cs = <<>> \/ Head(cs) \notin Digits THEN <<>>
    ELSE <<Head(cs)>> \o TakeDigits(Tail(cs))

RECURSIVE FirstDigitRun(_)
FirstDigitRun(cs) ==
    IF cs = <<>> THEN <<>>
    ELSE IF Head(cs) \in Digits THEN TakeDigits(cs)
    ELSE FirstDigitRun(Tail(cs))

\* int(run) of a run of decimal digits
RECURSIVE ParseDigits(_)
ParseDigits(run) ==
    IF run = <<>> THEN 0
    ELSE 10 * ParseDigits(SubSeq(run, 1, Len(run) - 1)) + DigitVal(run[Len(run)])

\* int(f) of the float tenths/10: truncation towards zero
TruncTenths(k) == IF k >= 0 THEN k \div 10 ELSE -((-k) \div 10)

\* lines 162-171: the claim value the validator stores
NormalizeClaimValue(v) ==
    IF v.t = "str"
    THEN LET run == FirstDigitRun(v.cs)
         IN  PyInt(IF run # <<>> THEN ParseDigits(run) ELSE 0)
    ELSE IF ~Truthy(v) THEN PyInt(0)
    ELSE CASE v.t = "int" -> PyInt(v.n)
           [] v.t = "bool" -> PyInt(1)
           [] v.t = "float" -> PyInt(TruncTenths(v.tenths))
           \* int(inf): OverflowError, int(nan): ValueError,
           \* int([..]): TypeError; the bare except stores 0
           [] OTHER -> PyInt(0)

\* TrackFromValue with the breakpoints exclusive
TrackFromValueExclusive(n) ==
    IF n < SmallClaimsLimit THEN "small_claims"
    ELSE IF n < FastTrackLimit THEN "fast_track"
    ELSE "multi_track"

\* lines 177-182: the track recomputed from the normalized claim value
TrackFromValue(n) ==
    IF n <= SmallClaimsLimit THEN "small_claims"
    ELSE IF n <= FastTrackLimit THEN "fast_track"
    ELSE "multi_track"

IsValidTrack(v) == v.t = "str" /\ v.s \in valid_tracks

\* NormalizeTrack recomputing the track even when it is valid
NormalizeTrackAlways(track, claim_value) ==
    PyStr(TrackFromValue(claim_value.n))


\* NormalizeTrack keeping a valid track only when it agrees with the claim
\* value
NormalizeTrackConsistent(track, claim_value) ==
    IF IsValidTrack(track) /\ track.s = TrackFromValue(claim_value.n)
    THEN track
    ELSE PyStr(TrackFromValue(claim_value.n))

\* lines 174-182
NormalizeTrack(track, claim_value) ==
    IF IsValidTrack(track) THEN track
    ELSE PyStr(TrackFromValue(claim_value.n))

\* _validate_analysis_result(analysis).  A value that is no dict cannot be
\* filled or repaired: `field not in analysis` or `analysis[field] = ...`
\* raises TypeError (for a list or str that holds every field name, the
\* assignment in the except clause of line 171 raises it).
ValidateAnalysisResult(analysis) ==
    IF analysis.t # "dict" THEN Raised("TypeError")
    ELSE LET filled == FillMissing(analysis.d)
             cv == NormalizeClaimValue(filled["claim_value_estimate"])
             tr == NormalizeTrack(filled["track_assessment"], cv)
         IN  Returned(PyDict([filled EXCEPT !["claim_value_estimate"] = cv,
                                           !["track_assessment"] = tr]))

-----------------------------------------------------------------------------
(* document_processor.py: the fallback generator *)

FallbackSummary == "Claimant's skeleton argument uploaded for analysis"

\* the fallback with its claim value written as the string "0" and no urgency
GenerateFallbackAnalysisLoose(text) ==
    PyDict([f \in RequiredFieldSet |->
        CASE f = "claim_value_estimate" -> PyChars(<<"0">>)
          [] f = "urgency_level" -> None
          [] OTHER -> GetDefaultValue(f)])

\* _generate_fallback_analysis(document_text): the text is not read
GenerateFallbackAnalysis(text) ==
    PyDict([
        document_summary |-> PyStr(FallbackSummary),
        claim_value_estimate |-> PyInt(0),
        track_assessment |-> PyStr("small_claims"),
        legal_categories |-> PyList(<<PyStr("contract")>>),
        claimant_arguments |-> PyList(<<
            PyDict([argument |-> PyStr("Analysis could not be completed automatically"),
                    legal_basis |-> PyStr("Manual review required"),
                    strength |-> PyStr("moderate")])>>),
        defence_points |-> PyList(<<
            PyDict([defence_strategy |-> PyStr("Comprehensive document review required - please consult with a solicitor for detailed analysis"),
                    legal_basis |-> PyStr("General civil procedure rules"),
                    evidence_required |-> PyStr("All relevant case documents and evidence"),
                    strength |-> PyStr("moderate"),
                    track |-> PyStr("all_tracks")])>>),
        procedural_considerations |-> PyList(<<
            PyStr("Review all deadlines and filing requirements"),
            PyStr("Consider whether additional time is needed for defence preparation")>>),
        evidence_strategy |-> PyList(<<
            PyStr("Compile all relevant documents"),
            PyStr("Identify potential witnesses"),
            PyStr("Consider expert evidence requirements")>>),
        settlement_considerations |-> PyStr("Manual review required to assess settlement prospects"),
        costs_considerations |-> PyStr("Consider costs implications and seek legal advice"),
        urgency_level |-> PyStr("high")])

-----------------------------------------------------------------------------
(* document_processor.py: the report formatter.  A report is the sequence   *)
(* of the pieces of text the f-strings put together; "\n" ends a line.     *)

\* dict.get(key, default)
DictGet(d, key, default) ==
    IF key \in DOMAIN d /\ d[key].t # "absent" THEN d[key] ELSE default

DigitChar(i) ==
    CASE i = 0 -> "0" [] i = 1 -> "1" [] i = 2 -> "2" [] i = 3 -> "3"
      [] i = 4 -> "4" [] i = 5 -> "5" [] i = 6 -> "6" [] i = 7 -> "7"
      [] i = 8 -> "8" [] i = 9 -> "9"

\* str(n) for n >= 0
RECURSIVE NatToChars(_)
NatToChars(n) ==
    IF n < 10 THEN <<DigitChar(n)>>
    ELSE NatToChars(n \div 10) \o <<DigitChar(n % 10)>>

IntToChars(i) == IF i < 0 THEN <<"-">> \o NatToChars(-i) ELSE NatToChars(i)

\* f"{n:,}" for n >= 0: groups of three digits from the right
RECURSIVE GroupThousands(_)
GroupThousands(n) ==
    IF n < 1000 THEN NatToChars(n)
    ELSE GroupThousands(n \div 1000)
         \o <<",", DigitChar((n % 1000) \div 100),
                   DigitChar((n % 100) \div 10), DigitChar(n % 10)>>

ThousandsInt(i) == IF i < 0 THEN <<"-">> \o GroupThousands(-i) ELSE GroupThousands(i)

\* format(v, ','): defined for numbers only (None: TypeError, str: ValueError,
\* list: TypeError)
CanFormatThousands(v) == v.t \in {"int", "float", "bool", "inf", "nan"}

FormatThousands(v) ==
    CASE v.t = "int" -> ThousandsInt(v.n)
      [] v.t = "bool" -> IF v.b THEN <<"1">> ELSE <<"0">>
      [] v.t = "float" ->
            (IF v.tenths < 0 THEN <<"-">> ELSE <<>>)
            \o GroupThousands((IF v.tenths < 0 THEN -v.tenths ELSE v.tenths) \div 10)
            \o <<".", DigitChar((IF v.tenths < 0 THEN -v.tenths ELSE v.tenths) % 10)>>
      [] v.t = "inf" -> <<"inf">>
      [] v.t = "nan" -> <<"nan">>

\* str.title() on the strings of the model
Title(s) ==
    CASE s = "low" -> "Low" [] s = "medium" -> "Medium" [] s = "high" -> "High"
      [] s = "weak" -> "Weak" [] s = "moderate" -> "Moderate"
      [] s = "strong" -> "Strong"
      [] s = "all" -> "All" [] s = "all_tracks" -> "All_Tracks"
      [] s = "small_claims" -> "Small_Claims"
      [] s = "fast_track" -> "Fast_Track"
      [] s = "multi_track" -> "Multi_Track"
      [] s = "urgent" -> "Urgent"
      [] OTHER -> s

RECURSIVE JoinWith(_, _)
\* sep.join(parts) for parts a sequence of token sequences
JoinWith(sep, parts) ==
    IF parts = <<>> THEN <<>>
    ELSE IF Len(parts) = 1 THEN parts[1]
    ELSE parts[1] \o <<sep>> \o JoinWith(sep, Tail(parts))

\* str(v) as an f-string interpolates it
RECURSIVE Render(_)
Render(v) ==
    CASE v.t = "str" -> IF "cs" \in DOMAIN v THEN v.cs ELSE <<v.s>>
      [] v.t = "none" -> <<"None">>
      [] v.t = "int" -> IntToChars(v.n)
      [] v.t = "bool" -> IF v.b THEN <<"True">> ELSE <<"False">>
      [] v.t = "float" ->
            (IF v.tenths < 0 THEN <<"-">> ELSE <<>>)
            \o NatToChars((IF v.tenths < 0 THEN -v.tenths ELSE v.tenths) \div 10)
            \o <<".", DigitChar((IF v.tenths < 0 THEN -v.tenths ELSE v.tenths) % 10)>>
      [] v.t = "inf" -> <<"inf">>
      [] v.t = "nan" -> <<"nan">>
      [] v.t = "list" ->
            <<"[">> \o JoinWith(", ", [i \in DOMAIN v.items |->
                        IF v.items[i].t = "str"
                        THEN <<"'">> \o Render(v.items[i]) \o <<"'">>
                        ELSE Render(v.items[i])]) \o <<"]">>
      [] OTHER -> <<"{...}">>

\* iterating v: a list gives its items, a whole str its characters (kept as
\* one piece each, none for ""); None and numbers are not iterable
Iterable(v) == v.t \in {"list", "str"}

IterItems(v) ==
    IF v.t = "list" THEN v.items
    ELSE IF v.s = "" THEN <<>> ELSE <<PyStr("char of " \o v.s)>>

\* lines 247-251, 261
track_info(track) ==
    CASE track = "small_claims" -> "Small Claims Track (up to £10,000)"
      [] track = "fast_track" -> "Fast Track (£10,000-£25,000)"
      [] track = "multi_track" -> "Multi-Track (£25,000+)"

\* a dict key must be hashable
Hashable(v) == v.t \notin {"list", "dict"}

TrackLabel(v) ==
    IF IsValidTrack(v) THEN <<track_info(v.s)>> ELSE Render(v)

\* v.title() needs a str
HasTitle(v) == v.t = "str"

HeaderTitle == "# Defence Strategy Analysis"
HeaderSummary == "## Document Summary"
HeaderCase == "## Case Assessment"
HeaderClaimant == "## Claimant's Key Arguments"
HeaderDefence == "## Recommended Defence Points"
HeaderProcedural == "## Procedural Considerations"
HeaderEvidence == "## Evidence Strategy"
HeaderSettlement == "## Settlement & Costs"
HeaderDisclaimer == "**Legal Disclaimer:**"

SectionHeaders ==
    <<HeaderTitle, HeaderSummary, HeaderCase, HeaderClaimant, HeaderDefence,
      HeaderProcedural, HeaderEvidence, HeaderSettlement, HeaderDisclaimer>>

FormatErrorString ==
    <<"Error formatting defence analysis. Please try uploading the document again.">>

\* lines 253-266
FormatHead(d) ==
    <<"\n", HeaderTitle, "\n", "\n", HeaderSummary, "\n">>
    \o Render(DictGet(d, "document_summary", PyStr("")))
    \o <<"\n", "\n", HeaderCase, "\n", "- **Estimated Claim Value:** £">>
    \o FormatThousands(DictGet(d, "claim_value_estimate", PyInt(0)))
    \o <<"\n", "- **Appropriate Track:** ">>
    \o TrackLabel(DictGet(d, "track_assessment", PyStr("small_claims")))
    \o <<"\n", "- **Legal Categories:** ">>
    \o JoinWith(", ", [i \in DOMAIN IterItems(DictGet(d, "legal_categories", PyList(<<>>))) |->
            Render(IterItems(DictGet(d, "legal_categories", PyList(<<>>)))[i])])
    \o <<"\n", "- **Urgency Level:** ",
         Title(DictGet(d, "urgency_level", PyStr("medium")).s),
         "\n", "\n", HeaderClaimant, "\n">>

HeadFails(d) ==
    \/ ~CanFormatThousands(DictGet(d, "claim_value_estimate", PyInt(0)))
    \/ ~Hashable(DictGet(d, "track_assessment", PyStr("small_claims")))
    \/ ~Iterable(DictGet(d, "legal_categories", PyList(<<>>)))
    \/ \E i \in DOMAIN IterItems(DictGet(d, "legal_categories", PyList(<<>>))) :
            IterItems(DictGet(d, "legal_categories", PyList(<<>>)))[i].t # "str"
    \/ ~HasTitle(DictGet(d, "urgency_level", PyStr("medium")))

\* lines 268-273: one claimant argument
FormatArgument(i, arg) ==
    <<"\n", "### ">> \o NatToChars(i) \o <<". ">>
    \o Render(DictGet(arg.d, "argument", PyStr("")))
    \o <<"\n", "- **Legal Basis:** ">>
    \o Render(DictGet(arg.d, "legal_basis", PyStr("")))
    \o <<"\n", "- **Strength Assessment:** ",
         Title(DictGet(arg.d, "strength", PyStr("moderate")).s), "\n">>

ArgumentFails(arg) ==
    \/ arg.t # "dict"
    \/ ~HasTitle(DictGet(arg.d, "strength", PyStr("moderate")))

\* lines 277-284: one defence point
FormatDefence(i, defence) ==
    <<"\n", "### ">> \o NatToChars(i) \o <<". ">>
    \o Render(DictGet(defence.d, "defence_strategy", PyStr("")))
    \o <<"\n", "- **Legal Basis:** ">>
    \o Render(DictGet(defence.d, "legal_basis", PyStr("")))
    \o <<"\n", "- **Evidence Required:** ">>
    \o Render(DictGet(defence.d, "evidence_required", PyStr("")))
    \o <<"\n", "- **Strength:** ",
         Title(DictGet(defence.d, "strength", PyStr("moderate")).s),
         "\n", "- **Relevant Track:** ",
         Title(DictGet(defence.d, "track", PyStr("all")).s), "\n">>

DefenceFails(defence) ==
    \/ defence.t # "dict"
    \/ ~HasTitle(DictGet(defence.d, "strength", PyStr("moderate")))
    \/ ~HasTitle(DictGet(defence.d, "track", PyStr("all")))

RECURSIVE Concat(_)
\* the concatenation of a sequence of token sequences
Concat(parts) == IF parts = <<>> THEN <<>> ELSE Head(parts) \o Concat(Tail(parts))

\* lines 287-288, 291-292: one bullet per item
FormatBullets(v) ==
    Concat([i \in DOMAIN IterItems(v) |->
                <<"- ">> \o Render(IterItems(v)[i]) \o <<"\n">>])

\* FormatBulletSections with the evidence list before the procedural one
FormatBulletSectionsSwapped(d) ==
    <<"\n", HeaderEvidence, "\n">>
    \o FormatBullets(DictGet(d, "evidence_strategy", PyList(<<>>)))
    \o <<"\n", HeaderProcedural, "\n">>
    \o FormatBullets(DictGet(d, "procedural_considerations", PyList(<<>>)))

\* lines 286-292: the two bullet lists
FormatBulletSections(d) ==
    <<"\n", HeaderProcedural, "\n">>
    \o FormatBullets(DictGet(d, "procedural_considerations", PyList(<<>>)))
    \o <<"\n", HeaderEvidence, "\n">>
    \o FormatBullets(DictGet(d, "evidence_strategy", PyList(<<>>)))

\* lines 268-302, after the head
FormatBody(d) ==
    Concat([i \in DOMAIN IterItems(DictGet(d, "claimant_arguments", PyList(<<>>))) |->
        FormatArgument(i, IterItems(DictGet(d, "claimant_arguments", PyList(<<>>)))[i])])
    \o <<"\n", HeaderDefence, "\n">>
    \o Concat([i \in DOMAIN IterItems(DictGet(d, "defence_points", PyList(<<>>))) |->
        FormatDefence(i, IterItems(DictGet(d, "defence_points", PyList(<<>>)))[i])])
    \o FormatBulletSections(d)
    \o <<"\n", HeaderSettlement, "\n", "**Settlement Considerations:** ">>
    \o Render(DictGet(d, "settlement_considerations", PyStr("")))
    \o <<"\n", "\n", "**Costs Considerations:** ">>
    \o Render(DictGet(d, "costs_considerations", PyStr("")))
    \o <<"\n", "\n", "---", "\n", HeaderDisclaimer,
         " This analysis is for informational purposes only and does not constitute legal advice. Always consult with a qualified solicitor for case-specific guidance.",
         "\n">>

BodyFails(d) ==
    \/ ~Iterable(DictGet(d, "claimant_arguments", PyList(<<>>)))
    \/ \E i \in DOMAIN IterItems(DictGet(d, "claimant_arguments", PyList(<<>>))) :
            ArgumentFails(IterItems(DictGet(d, "claimant_arguments", PyList(<<>>)))[i])
    \/ ~Iterable(DictGet(d, "defence_points", PyList(<<>>)))
    \/ \E i \in DOMAIN IterItems(DictGet(d, "defence_points", PyList(<<>>))) :
            DefenceFails(IterItems(DictGet(d, "defence_points", PyList(<<>>)))[i])
    \/ ~Iterable(DictGet(d, "procedural_considerations", PyList(<<>>)))
    \/ ~Iterable(DictGet(d, "evidence_strategy", PyList(<<>>)))

Whitespace == {"\n", " ", ""}

RECURSIVE LStrip(_)
LStrip(q) == IF q # <<>> /\ Head(q) \in Whitespace THEN LStrip(Tail(q)) ELSE q

RECURSIVE RStrip(_)
RStrip(q) ==
    IF q # <<>> /\ q[Len(q)] \in Whitespace
    THEN RStrip(SubSeq(q, 1, Len(q) - 1)) ELSE q

\* str.strip() on a sequence of pieces
Strip(q) == RStrip(LStrip(q))

\* format_defence_response(analysis): the report, or the fixed error string
\* when anything inside the try raises
FormatDefenceResponse(analysis) ==
    IF analysis.t # "dict" THEN FormatErrorString
    ELSE IF HeadFails(analysis.d) \/ BodyFails(analysis.d) THEN FormatErrorString
    ELSE Strip(FormatHead(analysis.d) \o FormatBody(analysis.d))

-----------------------------------------------------------------------------
(* The raw mappings the validator and the formatter are applied to *)

CharAlphabet == {"£", "1", "0", ",", "a"}

BoundedStrings == UNION {[1..n -> CharAlphabet] : n \in 0..MaxStrLen}

ExampleStrings ==
    { <<"£", "1", "2", ",", "5", "0", "0", " ", "a", "p", "p", "r", "o", "x">>,
      <<"u", "n", "c", "l", "e", "a", "r">>,
      <<"5", "0", "0", "0">>,
      <<"3", "0", "0", "0", "0", " ", "G", "B", "P">> }

IntValues == {-500, -1, 0, 1, 5000, 10000, 10001, 12500, 25000, 25001, 50000}

TenthsValues == {-15, -5, 5, 125007, 300000}

ClaimValues ==
    {Absent, None, PyInf, PyNaN, PyBool(TRUE), PyBool(FALSE),
     PyList(<<>>), PyList(<<PyInt(1)>>)}
    \cup {PyInt(i) : i \in IntValues}
    \cup {PyFloat(k) : k \in TenthsValues}
    \cup {PyChars(cs) : cs \in BoundedStrings \cup ExampleStrings}

TrackValues ==
    {Absent, None, PyStr("small_claims"), PyStr("fast_track"),
     PyStr("multi_track"), PyStr("unknown"), PyStr(""), PyInt(3),
     PyList(<<PyStr("fast_track")>>)}

OtherFields == RequiredFieldSet \ {"claim_value_estimate", "track_assessment"}

Argument(a, b, s) == PyDict([argument |-> a, legal_basis |-> b, strength |-> s])

DefencePoint(a, b, e, s, tr) ==
    PyDict([defence_strategy |-> a, legal_basis |-> b, evidence_required |-> e,
            strength |-> s, track |-> tr])

\* a conformant result with something in every field
FullBase ==
    [document_summary |-> PyStr("Claim for unpaid invoices"),
     legal_categories |-> PyList(<<PyStr("contract"), PyStr("debt")>>),
     claimant_arguments |-> PyList(<<
        Argument(PyStr("Invoices are overdue"), PyStr("Breach of contract"), PyStr("strong")),
        Argument(PyStr("Interest is due"), PyStr("Late Payment Act"), PyStr("weak"))>>),
     defence_points |-> PyList(<<
        DefencePoint(PyStr("Goods were defective"), PyStr("Consumer Rights Act"),
                     PyStr("Inspection report"), PyStr("moderate"), PyStr("fast_track"))>>),
     procedural_considerations |-> PyList(<<PyStr("File defence within 14 days")>>),
     evidence_strategy |-> PyList(<<PyStr("Collect delivery notes"), PyStr("Witness statement")>>),
     settlement_considerations |-> PyStr("Part 36 offer advisable"),
     costs_considerations |-> PyStr("Fixed costs apply"),
     urgency_level |-> PyStr("medium")]

\* a conformant result whose lists and free-text strings are empty
EmptyBase ==
    [document_summary |-> PyStr(""),
     legal_categories |-> PyList(<<>>),
     claimant_arguments |-> PyList(<<>>),
     defence_points |-> PyList(<<>>),
     procedural_considerations |-> PyList(<<>>),
     evidence_strategy |-> PyList(<<>>),
     settlement_considerations |-> PyStr(""),
     costs_considerations |-> PyStr(""),
     urgency_level |-> PyStr("low")]

\* the reply {} and the reply with every value null
AbsentBase == [f \in OtherFields |-> Absent]
NoneBase == [f \in OtherFields |-> None]

Bases == {FullBase, EmptyBase, AbsentBase, NoneBase}

\* other values a reply can carry in a field
FieldAlternatives(f) ==
    CASE f \in {"document_summary", "settlement_considerations", "costs_considerations"} ->
            {Absent, None, PyStr(""), PyStr("Some text"), PyInt(7)}
      [] f = "urgency_level" ->
            {Absent, None, PyStr("low"), PyStr("high"), PyStr("urgent"), PyStr(""), PyInt(1)}
      [] f = "legal_categories" ->
            {Absent, None, PyList(<<>>), PyList(<<PyStr("tort")>>),
             PyStr("contract"), PyStr(""), PyInt(5), PyList(<<PyInt(1)>>)}
      [] f = "claimant_arguments" ->
            {Absent, None, PyList(<<>>),
             PyList(<<Argument(PyStr("Debt is owed"), PyStr("Contract"), PyStr("moderate"))>>),
             PyList(<<Argument(PyStr("Debt is owed"), Absent, Absent)>>),
             PyList(<<Argument(PyStr("Debt is owed"), PyStr("Contract"), None)>>),
             PyList(<<PyStr("Debt is owed")>>),
             PyStr("Debt is owed"), PyStr(""), PyInt(0)}
      [] f = "defence_points" ->
            {Absent, None, PyList(<<>>),
             PyList(<<DefencePoint(PyStr("Limitation"), PyStr("Limitation Act 1980"),
                                   PyStr("Dates of breach"), PyStr("strong"), PyStr("all"))>>),
             PyList(<<DefencePoint(PyStr("Limitation"), Absent, Absent, Absent, Absent)>>),
             PyList(<<DefencePoint(PyStr("Limitation"), PyStr("Limitation Act 1980"),
                                   PyStr("Dates of breach"), PyStr("strong"), PyInt(2))>>),
             PyList(<<PyStr("Limitation")>>),
             PyStr("Limitation"), PyInt(0)}
      [] f \in {"procedural_considerations", "evidence_strategy"} ->
            {Absent, None, PyList(<<>>), PyList(<<PyStr("One"), PyStr("Two")>>),
             PyList(<<PyInt(14)>>), PyStr("Some text"), PyInt(2)}

AllAlternatives == UNION {FieldAlternatives(f) : f \in OtherFields}

\* base with the fields of P replaced by alternatives
PerturbedOn(base, P) ==
    {[f \in OtherFields |-> IF f \in P THEN g[f] ELSE base[f]] :
        g \in {h \in [P -> AllAlternatives] : \A f \in P : h[f] \in FieldAlternatives(f)}}

OtherMappings ==
    UNION {PerturbedOn(base, P) :
            base \in Bases,
            P \in {Q \in SUBSET OtherFields : Cardinality(Q) <= MaxPerturbed}}

\* the mapping with claim value cv, track tr and the other fields as in o
Mapping(cv, tr, o) ==
    PyDict([f \in RequiredFieldSet |->
                IF f = "claim_value_estimate" THEN cv
                ELSE IF f = "track_assessment" THEN tr
                ELSE o[f]])

\* every claim value with every track, over the bases
ValueSlice == {Mapping(cv, tr, o) : cv \in ClaimValues, tr \in TrackValues, o \in Bases}

\* the perturbed other fields, with a few claim values and tracks
FieldSlice ==
    {Mapping(cv, tr, o) :
        cv \in {Absent, PyInt(5000), PyInt(50000)},
        tr \in {Absent, PyStr("small_claims"), PyStr("unknown")},
        o \in OtherMappings}

RawMappings == ValueSlice \cup FieldSlice

\* parsed replies that are no mapping
NonMappings == {None, PyInt(5), PyStr("text"), PyList(<<>>), PyList(<<PyStr("document_summary")>>)}

-----------------------------------------------------------------------------
(* Texts: a text is given by the number of its leading whitespace          *)
(* characters, of the characters from its first to its last non-blank one, *)
(* and of its trailing whitespace characters.                              *)

Text(l, c, r) == [lead |-> l, core |-> c, trail |-> r]

\* str.strip()
StripText(x) == Text(0, x.core, 0)

\* len(str)
TextLen(x) == x.lead + x.core + x.trail

CoreLengths == {0, 1, 30, 49, 50, 51, 12000}

Texts == {Text(l, c, r) : l \in 0..1, c \in CoreLengths, r \in 0..1}

NoText == Text(0, 0, 0)

-----------------------------------------------------------------------------
(* Direct calls of the validator, the fallback generator and the formatter *)

IdleUpload ==
    /\ pc = "idle"
    /\ request = [has_document |-> FALSE, filename |-> <<"">>,
                  content |-> [size |-> 0, readable |-> FALSE, text |-> NoText]]
    /\ session_id = ""
    /\ users = <<>>
    /\ document_text = NoText
    /\ llm = [kind |-> "none"]
    /\ analysis_result = Absent
    /\ formatted_response = <<>>
    /\ documents = <<>>
    /\ chats = <<>>
    /\ response = [success |-> FALSE, type |-> "none"]
    /\ events = <<>>
    /\ probe = NotRun

InitV ==
    /\ vphase = "input"
    /\ vsource = "given"
    /\ raw \in RawMappings \cup NonMappings
    /\ validated = NotRun
    /\ revalidated = NotRun
    /\ report = <<>>
    /\ IdleUpload

\* _generate_fallback_analysis(document_text)
GenerateFallback ==
    /\ vphase = "input"
    /\ vsource = "given"
    /\ \E text \in Texts : raw' = GenerateFallbackAnalysis(text)
    /\ vsource' = "fallback"
    /\ UNCHANGED <<vphase, validated, revalidated, report>>
    /\ UNCHANGED uvars

\* _validate_analysis_result(raw)
Validate ==
    /\ vphase = "input"
    /\ validated' = ValidateAnalysisResult(raw)
    /\ vphase' = "validated"
    /\ UNCHANGED <<vsource, raw, revalidated, report>>
    /\ UNCHANGED uvars

\* _validate_analysis_result applied to its own result
Revalidate ==
    /\ vphase = "validated"
    /\ ~validated.raised
    /\ revalidated' = ValidateAnalysisResult(validated.value)
    /\ vphase' = "revalidated"
    /\ UNCHANGED <<vsource, raw, validated, report>>
    /\ UNCHANGED uvars

\* format_defence_response(raw)
FormatInput ==
    /\ vphase = "input"
    /\ report' = FormatDefenceResponse(raw)
    /\ vphase' = "formatted_input"
    /\ UNCHANGED <<vsource, raw, validated, revalidated>>
    /\ UNCHANGED uvars

\* format_defence_response on the validated result
FormatValidated ==
    /\ vphase = "validated"
    /\ ~validated.raised
    /\ report' = FormatDefenceResponse(validated.value)
    /\ vphase' = "formatted"
    /\ UNCHANGED <<vsource, raw, validated, revalidated>>
    /\ UNCHANGED uvars

NextV ==
    \/ GenerateFallback
    \/ Validate
    \/ Revalidate
    \/ FormatInput
    \/ FormatValidated

SpecV == InitV /\ [][NextV]_vars

-----------------------------------------------------------------------------
(* The AnalysisResult invariants of the data model *)

IsStr(v) == v.t = "str"

IsListOf(v, P(_)) == v.t = "list" /\ \A i \in DOMAIN v.items : P(v.items[i])

Strengths == {"weak", "moderate", "strong"}

UrgencyLevels == {"low", "medium", "high"}

IsArgument(x) ==
    /\ x.t = "dict"
    /\ DOMAIN x.d = {"argument", "legal_basis", "strength"}
    /\ IsStr(x.d["argument"])
    /\ IsStr(x.d["legal_basis"])
    /\ IsStr(x.d["strength"]) /\ x.d["strength"].s \in Strengths

IsDefencePoint(x) ==
    /\ x.t = "dict"
    /\ DOMAIN x.d = {"defence_strategy", "legal_basis", "evidence_required",
                     "strength", "track"}
    /\ \A k \in DOMAIN x.d : IsStr(x.d[k])
    /\ x.d["strength"].s \in Strengths

HasAllFields(a) ==
    a.t = "dict" /\ \A f \in RequiredFieldSet : f \in DOMAIN a.d /\ a.d[f].t # "absent"

IsNonNegativeInt(v) == v.t = "int" /\ v.n >= 0

Conformant(a) ==
    /\ HasAllFields(a)
    /\ IsStr(a.d["document_summary"])
    /\ IsNonNegativeInt(a.d["claim_value_estimate"])
    /\ IsValidTrack(a.d["track_assessment"])
    /\ IsListOf(a.d["legal_categories"], IsStr)
    /\ IsListOf(a.d["claimant_arguments"], IsArgument)
    /\ IsListOf(a.d["defence_points"], IsDefencePoint)
    /\ IsListOf(a.d["procedural_considerations"], IsStr)
    /\ IsListOf(a.d["evidence_strategy"], IsStr)
    /\ IsStr(a.d["settlement_considerations"])
    /\ IsStr(a.d["costs_considerations"])
    /\ IsStr(a.d["urgency_level"]) /\ a.d["urgency_level"].s \in UrgencyLevels

\* the amount a string writes: its first run of digits together with the
\* groups of three digits that thousands separators attach to it
RECURSIVE TakeGroups(_)
TakeGroups(rest) ==
    IF /\ Len(rest) >= 4
       /\ rest[1] = ","
       /\ \A i \in 2..4 : rest[i] \in Digits
       /\ (Len(rest) = 4 \/ rest[5] \notin Digits)
    THEN SubSeq(rest, 2, 4) \o TakeGroups(SubSeq(rest, 5, Len(rest)))
    ELSE <<>>

RECURSIVE FromFirstDigit(_)
FromFirstDigit(cs) ==
    IF cs = <<>> \/ Head(cs) \in Digits THEN cs ELSE FromFirstDigit(Tail(cs))

AmountWritten(cs) ==
    LET from == FromFirstDigit(cs)
        run == TakeDigits(from)
        rest == SubSeq(from, Len(run) + 1, Len(from))
    IN  ParseDigits(IF Len(run) <= 3 THEN run \o TakeGroups(rest) ELSE run)

HasDigit(cs) == \E i \in DOMAIN cs : cs[i] \in Digits

-----------------------------------------------------------------------------
(* Claims about the validator, the fallback generator and the formatter,   *)
(* checked under SpecV                                                     *)

ValidatedMapping == vphase = "validated" /\ raw.t = "dict" /\ ~validated.raised

\* C1: whenever a raw mapping lacks a required field or carries None in
\* one, the validated mapping has all 11 required fields and none is None.
C1_NoNoneSurvives ==
    (/\ ValidatedMapping
     /\ \E f \in RequiredFieldSet : raw.d[f].t \in {"absent", "none"})
    => \A f \in RequiredFieldSet :
            validated.value.d[f].t \notin {"absent", "none"}

\* C2: whatever the raw claim_value_estimate is, the validated one is an
\* integer greater than or equal to 0.
C2_ClaimValueNonNegative ==
    ValidatedMapping
    => IsNonNegativeInt(validated.value.d["claim_value_estimate"])

\* C3: when the raw track_assessment is present but not one of the three
\* valid tracks, the validated track follows the normalized claim value v:
\* v <= 10000 small_claims, 10000 < v <= 25000 fast_track, v > 25000
\* multi_track.
C3_TrackFromClaimValue ==
    (/\ ValidatedMapping
     /\ raw.d["track_assessment"].t # "absent"
     /\ ~IsValidTrack(raw.d["track_assessment"]))
    => LET v == validated.value.d["claim_value_estimate"].n
           track == validated.value.d["track_assessment"]
       IN  /\ v <= 10000 => track = PyStr("small_claims")
           /\ (10000 < v /\ v <= 25000) => track = PyStr("fast_track")
           /\ v > 25000 => track = PyStr("multi_track")

C3_Witness ==
    /\ ValidatedMapping
    /\ raw.d["track_assessment"] = PyStr("unknown")
    /\ raw.d["claim_value_estimate"] = PyInt(25000)
    /\ validated.value.d["track_assessment"] = PyStr("fast_track")

\* C4: a string claim value with a digit run is validated to the full amount
\* it writes (12500 for "£12,500 approx"); a string with no digit to 0.
C4_FullAmountExtracted ==
    (/\ ValidatedMapping
     /\ raw.d["claim_value_estimate"].t = "str")
    => validated.value.d["claim_value_estimate"] =
            PyInt(IF HasDigit(raw.d["claim_value_estimate"].cs)
                  THEN AmountWritten(raw.d["claim_value_estimate"].cs)
                  ELSE 0)

\* a raw mapping that is already valid in the sense of C5
AlreadyValid(a) ==
    /\ HasAllFields(a)
    /\ IsNonNegativeInt(a.d["claim_value_estimate"])
    /\ IsValidTrack(a.d["track_assessment"])

\* C5: on a mapping with all 11 fields, an integer claim value >= 0 and a
\* valid track, validating once and validating twice both give back the
\* input mapping.
C5_IdempotentOnValid ==
    (raw.t = "dict" /\ AlreadyValid(raw))
    => /\ vphase \in {"validated", "revalidated", "formatted"} => validated = Returned(raw)
       /\ vphase = "revalidated" => revalidated = Returned(raw)

C5_Witness ==
    /\ vphase = "revalidated"
    /\ vsource = "given"
    /\ AlreadyValid(raw)
    /\ raw.d["claim_value_estimate"] = PyInt(50000)
    /\ raw.d["track_assessment"] = PyStr("small_claims")
    /\ revalidated = Returned(raw)

\* the position of the piece h in a report (0 when it is not in it)
PositionsOf(h, q) == {i \in DOMAIN q : q[i] = h}

\* every section header occurs once, and in the fixed order
SectionsInOrder(q) ==
    /\ \A k \in DOMAIN SectionHeaders :
            Cardinality(PositionsOf(SectionHeaders[k], q)) = 1
    /\ \A k \in 1..(Len(SectionHeaders) - 1) :
            \A i \in PositionsOf(SectionHeaders[k], q) :
                \A j \in PositionsOf(SectionHeaders[k + 1], q) : i < j
    /\ q[1] = HeaderTitle

\* C7: the fallback analysis has all 11 fields, claim value 0, track
\* small_claims, urgency high, one claimant argument and one defence point
\* with strengths in {weak, moderate, strong}; the validator leaves it
\* unchanged; the formatter renders it into a report, not the error string.
C7_FallbackConformant ==
    vsource = "fallback"
    => /\ Conformant(raw)
       /\ raw.d["claim_value_estimate"] = PyInt(0)
       /\ raw.d["track_assessment"] = PyStr("small_claims")
       /\ raw.d["urgency_level"] = PyStr("high")
       /\ Len(raw.d["claimant_arguments"].items) = 1
       /\ Len(raw.d["defence_points"].items) = 1
       /\ vphase \in {"validated", "revalidated", "formatted"} => validated = Returned(raw)
       /\ vphase \in {"formatted", "formatted_input"}
            => report # FormatErrorString /\ SectionsInOrder(report)

C7_Witness ==
    /\ vsource = "fallback"
    /\ vphase = "formatted"
    /\ validated = Returned(raw)
    /\ report # FormatErrorString

\* C8: the formatter renders every fully conformant AnalysisResult, also one
\* with empty lists and empty strings, into a report (not the error string)
\* whose sections are in the fixed order header, document summary, case
\* assessment, claimant arguments, defence points, procedural
\* considerations, evidence strategy, settlement/costs, legal disclaimer.
C8_FormatterTotalAndOrdered ==
    (vphase = "formatted_input" /\ Conformant(raw))
    => /\ report # FormatErrorString
       /\ SectionsInOrder(report)

C8_Witness ==
    /\ vphase = "formatted_input"
    /\ vsource = "given"
    /\ Conformant(raw)
    /\ \A f \in {"legal_categories", "claimant_arguments", "defence_points",
                 "procedural_considerations", "evidence_strategy"} :
            raw.d[f] = PyList(<<>>)
    /\ raw.d["document_summary"] = PyStr("")
    /\ SectionsInOrder(report)

-----------------------------------------------------------------------------
(* document_processor.py: the text extractor.  A filename is the sequence   *)
(* of the pieces its dots separate ("brief.pdf" is <<"brief", "pdf">>, a   *)
(* name without a dot has one piece); the content of a file is its size,    *)
(* whether its bytes can be read in the format its extension names, and     *)
(* the text written in it.                                                  *)

\* str.lower() on the pieces of the model
Lower(s) ==
    CASE s = "PDF" -> "pdf" [] s = "Txt" -> "txt" [] s = "RTF" -> "rtf"
      [] s = "DOCX" -> "docx" [] s = "README" -> "readme"
      [] OTHER -> s

\* filename.lower().split('.')[-1]
FileExtension(filename) == Lower(filename[Len(filename)])

\* _extract_from_pdf(file_content)
ExtractFromPdf(content) ==
    IF content.readable THEN Returned(StripText(content.text))
    ELSE Raised([kind |-> "ValueError",
                 message |-> "Could not extract text from PDF file"])

\* _extract_from_docx(file_content)
ExtractFromDocx(content) ==
    IF content.readable THEN Returned(StripText(content.text))
    ELSE Raised([kind |-> "ValueError",
                 message |-> "Could not extract text from Word document"])

\* file_content.decode('utf-8')
DecodeUtf8(content) ==
    IF content.readable THEN Returned(content.text)
    ELSE Raised([kind |-> "UnicodeDecodeError", message |-> "invalid utf-8"])

\* the branch of line 36-37
UnsupportedFileType(file_extension) ==
    Raised([kind |-> "ValueError", message |-> "Unsupported file type: ",
            extension |-> file_extension])

\* extract_text_from_file(file_content, filename); the except clause logs
\* and raises again
ExtractTextFromFile(content, filename) ==
    LET file_extension == FileExtension(filename)
    IN  IF file_extension = "pdf" THEN ExtractFromPdf(content)
        ELSE IF file_extension \in {"doc", "docx"} THEN ExtractFromDocx(content)
        ELSE IF file_extension = "txt" THEN DecodeUtf8(content)
        ELSE UnsupportedFileType(file_extension)

-----------------------------------------------------------------------------
(* routes.py: the upload handler *)

ALLOWED_EXTENSIONS == {"txt", "pdf", "doc", "docx"}

\* allowed_file looking at the piece after the first dot (split, not rsplit)
allowed_file_first_dot(filename) ==
    Len(filename) > 1 /\ Lower(filename[2]) \in ALLOWED_EXTENSIONS

\* allowed_file(filename): '.' in filename and
\* filename.rsplit('.', 1)[1].lower() in ALLOWED_EXTENSIONS
allowed_file(filename) ==
    Len(filename) > 1 /\ Lower(filename[Len(filename)]) \in ALLOWED_EXTENSIONS

RECURSIVE DropLeadingEmpty(_)
DropLeadingEmpty(q) ==
    IF Len(q) > 1 /\ Head(q) = "" THEN DropLeadingEmpty(Tail(q)) ELSE q

RECURSIVE DropTrailingEmpty(_)
DropTrailingEmpty(q) ==
    IF Len(q) > 1 /\ q[Len(q)] = ""
    THEN DropTrailingEmpty(SubSeq(q, 1, Len(q) - 1)) ELSE q

\* werkzeug's secure_filename(file.filename or 'unknown.txt') on the names of
\* the model: leading and trailing dots are stripped
secure_filename(filename) ==
    IF filename = <<"">> THEN <<"unknown", "txt">>
    ELSE DropTrailingEmpty(DropLeadingEmpty(filename))

Filenames ==
    { <<"">>, <<"brief", "pdf">>, <<"brief", "PDF">>, <<"notes", "txt">>,
      <<"photo", "Txt">>, <<"letter", "doc">>, <<"letter", "docx">>,
      <<"", "txt">>, <<"brief", "v2", "pdf">>,
      <<"brief", "rtf">>, <<"brief", "RTF">>, <<"archive", "tar", "gz">>,
      <<"brief", "pdf", "exe">>, <<"README">>, <<"pdf">>, <<"brief", "">> }

Content(n, ok, x) == [size |-> n, readable |-> ok, text |-> x]

Contents ==
    {Content(0, FALSE, NoText), Content(1, FALSE, NoText)}
    \cup {Content(TextLen(x), TRUE, x) : x \in Texts \ {NoText}}
    \cup {Content(1, TRUE, NoText)}

GoodContent == Content(120, TRUE, Text(0, 120, 0))

Request(h, fn, c) == [has_document |-> h, filename |-> fn, content |-> c]

\* a .txt file that decodes holds as many characters as it has text
PossibleRequest(r) ==
    (r.content.readable /\ FileExtension(r.filename) = "txt")
        => r.content.size = TextLen(r.content.text)

Requests ==
    {r \in {Request(h, fn, GoodContent) : h \in BOOLEAN, fn \in Filenames}
           \cup {Request(TRUE, fn, c) :
                    fn \in {<<"brief", "pdf">>, <<"notes", "txt">>, <<"letter", "docx">>},
                    c \in Contents} :
        PossibleRequest(r)}

\* the session cookie and the User rows when the request arrives: no
\* session yet, a session with its User row, a session whose row is gone
Sessions ==
    { [session_id |-> 0, users |-> <<>>],
      [session_id |-> 1, users |-> <<1>>],
      [session_id |-> 1, users |-> <<>>] }

Scenarios ==
    {[request |-> r, session |-> ss] : r \in Requests, ss \in {[session_id |-> 0, users |-> <<>>]}}
    \cup {[request |-> Request(TRUE, <<"notes", "txt">>, GoodContent), session |-> ss] :
            ss \in Sessions}

\* the replies of the LLM the upload is run against
UploadReplies ==
    {Mapping(cv, tr, o) :
        cv \in {PyChars(<<"5", "0", "0", "0">>), PyInt(50000)},
        tr \in {PyStr("unknown"), PyStr("small_claims")},
        o \in Bases \cup UNION {PerturbedOn(FullBase, {f}) : f \in OtherFields}}

\* what openai_client.chat.completions.create and json.loads can do: the
\* call raises; the content is no JSON; the content is empty or None, read
\* as "{}"; the content parses to a value
LLMOutcomes ==
    {[kind |-> "raises"], [kind |-> "not_json"], [kind |-> "empty"]}
    \cup {[kind |-> "parsed", value |-> v] : v \in UploadReplies \cup NonMappings}

EmptyMapping == PyDict([f \in RequiredFieldSet |-> Absent])

\* json.loads(response.choices[0].message.content or "{}")
JsonLoads(outcome) ==
    CASE outcome.kind = "not_json" -> Raised("JSONDecodeError")
      [] outcome.kind = "empty" -> Returned(EmptyMapping)
      [] outcome.kind = "parsed" -> Returned(outcome.value)

\* the except clause logging and raising again, as extract_text_from_file does
OnAnalysisExceptionReraise(text) == Raised("Exception")

\* document_processor.py:143-145, the except clause of
\* analyze_skeleton_argument: log, return the fallback analysis
OnAnalysisException(text) == Returned(GenerateFallbackAnalysis(text))

Failure(tag) == [success |-> FALSE, type |-> "error", error |-> tag]

IdleCalls ==
    /\ vphase = "idle"
    /\ vsource = "given"
    /\ raw = Absent
    /\ validated = NotRun
    /\ revalidated = NotRun
    /\ report = <<>>

Init ==
    /\ IdleCalls
    /\ pc = "start"
    /\ \E sc \in Scenarios :
        /\ request = sc.request
        /\ session_id = sc.session.session_id
        /\ users = sc.session.users
    /\ document_text = NoText
    /\ llm = [kind |-> "none"]
    /\ analysis_result = Absent
    /\ formatted_response = <<>>
    /\ documents = <<>>
    /\ chats = <<>>
    /\ response = [success |-> FALSE, type |-> "none"]
    /\ events = <<>>
    /\ probe = NotRun

\* return jsonify({'success': False, ...})
Fail(tag) ==
    /\ response' = Failure(tag)
    /\ pc' = "done"

\* routes.py:393-416: the file is there, has a name, and the name is allowed
CheckUpload ==
    /\ pc = "start"
    /\ IF ~request.has_document THEN Fail("no_file")
       ELSE IF request.filename = <<"">> THEN Fail("no_filename")
       ELSE IF ~allowed_file(request.filename) THEN Fail("unsupported_type")
       ELSE pc' = "user" /\ UNCHANGED response
    /\ UNCHANGED <<request, session_id, users, document_text, llm,
                   analysis_result, formatted_response, documents, chats,
                   events, probe>>
    /\ UNCHANGED vvars

Range(q) == {q[i] : i \in DOMAIN q}

\* str(uuid.uuid4()): an id no session has
FreshSessionId == 1 + Len(users)

\* routes.py:419-429: get or create the session and its User row
GetOrCreateUser ==
    /\ pc = "user"
    /\ LET sid == IF session_id = 0 THEN FreshSessionId ELSE session_id
       IN  /\ session_id' = sid
           /\ users' = IF sid \in Range(users) THEN users ELSE Append(users, sid)
    /\ pc' = "read"
    /\ UNCHANGED <<request, document_text, llm, analysis_result,
                   formatted_response, documents, chats, response, events, probe>>
    /\ UNCHANGED vvars

\* routes.py:432-440: read the bytes, refuse an empty file
ReadFile ==
    /\ pc = "read"
    /\ IF request.content.size = 0 THEN Fail("empty_file")
       ELSE pc' = "extract" /\ UNCHANGED response
    /\ UNCHANGED <<request, session_id, users, document_text, llm,
                   analysis_result, formatted_response, documents, chats,
                   events, probe>>
    /\ UNCHANGED vvars

\* routes.py:443-451: extract the text
ExtractText ==
    /\ pc = "extract"
    /\ events' = Append(events, "extract")
    /\ LET r == ExtractTextFromFile(request.content, secure_filename(request.filename))
       IN  IF r.raised
           THEN Fail("unreadable") /\ UNCHANGED document_text
           ELSE /\ document_text' = r.value
                /\ pc' = "length"
                /\ UNCHANGED response
    /\ UNCHANGED <<request, session_id, users, llm, analysis_result,
                   formatted_response, documents, chats, probe>>
    /\ UNCHANGED vvars

\* the length check on the text as extracted, not stripped
InsufficientTextUnstripped(text) == TextLen(text) < MinTextLength

\* routes.py:454: not document_text.strip() or len(document_text.strip()) < 50
InsufficientText(text) ==
    StripText(text).core = 0 \/ TextLen(StripText(text)) < MinTextLength

\* routes.py:453-459
CheckLength ==
    /\ pc = "length"
    /\ IF InsufficientText(document_text) THEN Fail("insufficient_text")
       ELSE pc' = "analyze" /\ UNCHANGED response
    /\ UNCHANGED <<request, session_id, users, document_text, llm,
                   analysis_result, formatted_response, documents, chats,
                   events, probe>>
    /\ UNCHANGED vvars

\* document_processor.py:121-136: the call of the LLM
CallLLM ==
    /\ pc = "analyze"
    /\ \E outcome \in LLMOutcomes :
        /\ llm' = outcome
        /\ pc' = IF outcome.kind = "raises" THEN "except" ELSE "reply"
    /\ events' = Append(events, "llm_call")
    /\ UNCHANGED <<request, session_id, users, document_text, analysis_result,
                   formatted_response, documents, chats, response, probe>>
    /\ UNCHANGED vvars

\* document_processor.py:138-141: parse the reply and validate it
ValidateReply ==
    /\ pc = "reply"
    /\ LET parsed == JsonLoads(llm)
       IN  IF parsed.raised
           THEN pc' = "except" /\ UNCHANGED <<analysis_result, events>>
           ELSE LET v == ValidateAnalysisResult(parsed.value)
                IN  /\ events' = Append(events, "validate")
                    /\ IF v.raised
                       THEN pc' = "except" /\ UNCHANGED analysis_result
                       ELSE analysis_result' = v.value /\ pc' = "store"
    /\ UNCHANGED <<request, session_id, users, document_text, llm,
                   formatted_response, documents, chats, response, probe>>
    /\ UNCHANGED vvars


\* the number of LLM calls of the request so far
LLMCalls == Cardinality({i \in DOMAIN events : events[i] = "llm_call"})

\* an except clause that calls the LLM a second time before it gives up
HandleAnalysisExceptionRetry ==
    /\ pc = "except"
    /\ LLMCalls < 2
    /\ pc' = "analyze"
    /\ UNCHANGED <<request, session_id, users, document_text, llm,
                   analysis_result, formatted_response, documents, chats,
                   response, events, probe>>
    /\ UNCHANGED vvars

\* document_processor.py:143-145 and routes.py:462-470: the except clause of
\* analyze_skeleton_argument, and the handler's answer if the call raised
HandleAnalysisException ==
    /\ pc = "except"
    /\ events' = Append(events, "fallback")
    /\ LET r == OnAnalysisException(document_text)
       IN  IF r.raised
           THEN Fail("analysis_error") /\ UNCHANGED analysis_result
           ELSE /\ analysis_result' = r.value
                /\ pc' = "store"
                /\ UNCHANGED response
    /\ UNCHANGED <<request, session_id, users, document_text, llm,
                   formatted_response, documents, chats, probe>>
    /\ UNCHANGED vvars

\* user.id: the row of the session's User
UserId == CHOOSE i \in DOMAIN users : users[i] = session_id

Min(a, b) == IF a <= b THEN a ELSE b

\* routes.py:472-485: add and commit the DocumentAnalysis row (the commits
\* of the handler are taken to succeed: the database is not part of src/)
StoreAnalysis ==
    /\ pc = "store"
    /\ documents' = Append(documents,
        [user_id |-> UserId,
         filename |-> secure_filename(request.filename),
         text_length |-> Min(TextLen(document_text), StoredTextLimit),
         analysis_summary |-> DictGet(analysis_result.d, "document_summary", PyStr("")),
         claim_value_estimate |-> DictGet(analysis_result.d, "claim_value_estimate", PyInt(0)),
         track_type |-> DictGet(analysis_result.d, "track_assessment", PyStr("small_claims"))])
    /\ events' = Append(events, "store_document")
    /\ pc' = "format"
    /\ UNCHANGED <<request, session_id, users, document_text, llm,
                   analysis_result, formatted_response, chats, response, probe>>
    /\ UNCHANGED vvars

\* routes.py:488
FormatResponse ==
    /\ pc = "format"
    /\ formatted_response' = FormatDefenceResponse(analysis_result)
    /\ events' = Append(events, "format")
    /\ pc' = "chat"
    /\ UNCHANGED <<request, session_id, users, document_text, llm,
                   analysis_result, documents, chats, response, probe>>
    /\ UNCHANGED vvars

\* no outer except clause: the exception leaves the handler and there is no
\* payload
OuterExceptMissing == [type |-> "exception", error |-> "TypeError"]

\* routes.py:515-521: the handler's outer except clause logs and answers
\* with a failure
OuterExcept == Failure("unexpected")

\* routes.py:495: analysis_result.get('legal_categories', [...])[0] if
\* analysis_result.get('legal_categories') else 'document_analysis'
LegalCategory(analysis) ==
    LET cats == DictGet(analysis.d, "legal_categories", None)
    IN  IF ~Truthy(cats) THEN Returned(PyStr("document_analysis"))
        ELSE IF cats.t = "list" THEN Returned(cats.items[1])
        ELSE IF cats.t = "str" THEN Returned(PyStr("char of " \o cats.s))
        ELSE Raised("TypeError")

\* routes.py:491-504 and 515-521: add and commit the ChatMessage row; an
\* exception ends in the handler's outer except clause
StoreChat ==
    /\ pc = "chat"
    /\ LET category == LegalCategory(analysis_result)
       IN  IF category.raised
           THEN /\ response' = OuterExcept
                /\ pc' = "done"
                /\ UNCHANGED <<chats, events>>
           ELSE /\ chats' = Append(chats,
                    [user_id |-> UserId,
                     response |-> formatted_response,
                     legal_category |-> category.value])
                /\ events' = Append(events, "store_chat")
                /\ pc' = "respond"
                /\ UNCHANGED response
    /\ UNCHANGED <<request, session_id, users, document_text, llm,
                   analysis_result, formatted_response, documents, probe>>
    /\ UNCHANGED vvars

\* routes.py:506-513
Respond ==
    /\ pc = "respond"
    /\ response' = [success |-> TRUE, type |-> "success",
                    analysis |-> analysis_result,
                    formatted_response |-> formatted_response,
                    document_id |-> Len(documents),
                    filename |-> secure_filename(request.filename)]
    /\ pc' = "done"
    /\ UNCHANGED <<request, session_id, users, document_text, llm,
                   analysis_result, formatted_response, documents, chats,
                   events, probe>>
    /\ UNCHANGED vvars

\* a direct call of extract_text_from_file(file_content, filename)
ExtractDirect ==
    /\ pc = "start"
    /\ probe' = ExtractTextFromFile(request.content, request.filename)
    /\ pc' = "probed"
    /\ UNCHANGED <<request, session_id, users, document_text, llm,
                   analysis_result, formatted_response, documents, chats,
                   response, events>>
    /\ UNCHANGED vvars

Next ==
    \/ CheckUpload
    \/ GetOrCreateUser
    \/ ReadFile
    \/ ExtractText
    \/ CheckLength
    \/ CallLLM
    \/ ValidateReply
    \/ HandleAnalysisException
    \/ StoreAnalysis
    \/ FormatResponse
    \/ StoreChat
    \/ Respond
    \/ ExtractDirect

Spec == Init /\ [][Next]_vars

-----------------------------------------------------------------------------
(* Claims about the upload request, checked under Spec *)

Happened(e) == e \in Range(events)

\* the analysis step failed: the LLM call raised, its reply was no JSON, or
\* the parsed reply was no mapping (the one way validation raises)
AnalysisFailed ==
    \/ llm.kind \in {"raises", "not_json"}
    \/ llm.kind = "parsed" /\ llm.value.t # "dict"

AfterAnalysis == pc \in {"store", "format", "chat", "respond", "done"}

Extracted == Happened("extract") /\ response # Failure("unreadable")

\* C9: when the extracted text has fewer than 50 characters after trimming,
\* the request ends with success: false (insufficient text) and there is no
\* LLM call, no fallback generation and no DocumentAnalysis row; an LLM call
\* happens only after the length check has passed.
C9_ShortTextStopsBeforeLLM ==
    /\ (Extracted /\ StripText(document_text).core < 50)
        => /\ ~Happened("llm_call")
           /\ ~Happened("fallback")
           /\ ~Happened("store_document")
           /\ documents = <<>>
           /\ pc \in {"length", "done"}
           /\ pc = "done" => response = Failure("insufficient_text")
    /\ Happened("llm_call")
        => Extracted /\ StripText(document_text).core >= 50

C9_Witness ==
    /\ pc = "done"
    /\ document_text = Text(1, 49, 1)
    /\ response = Failure("insufficient_text")
    /\ events = <<"extract">>

\* the lowercased suffix of the uploaded name is none of the four supported
UnsupportedSuffix ==
    Lower(request.filename[Len(request.filename)]) \notin {"txt", "pdf", "doc", "docx"}

\* C10: an upload whose lowercased filename suffix is not txt, pdf, doc or
\* docx is answered with a failure before any extraction; and
\* extract_text_from_file called on such a name raises the unsupported-type
\* error that names the suffix.
C10_UnsupportedRejected ==
    UnsupportedSuffix
    => /\ ~Happened("extract")
       /\ document_text = NoText
       /\ pc \in {"start", "done", "probed"}
       /\ pc = "done" => ~response.success /\ response.type = "error"
       /\ pc = "probed"
            => /\ probe.raised
               /\ probe.error.kind = "ValueError"
               /\ probe.error.message = "Unsupported file type: "
               /\ probe.error.extension =
                    Lower(request.filename[Len(request.filename)])

C10_Witness ==
    /\ pc = "done"
    /\ request.has_document
    /\ request.filename = <<"brief", "RTF">>
    /\ response = Failure("unsupported_type")
    /\ events = <<>>


\* C15: when the raw track_assessment is already one of small_claims,
\* fast_track, multi_track, the validator returns that track unchanged
\* whatever the claim value is, even when the two are inconsistent
C15_ValidTrackKept ==
    (/\ ValidatedMapping
     /\ IsValidTrack(raw.d["track_assessment"]))
    => validated.value.d["track_assessment"] = raw.d["track_assessment"]

C15_Witness ==
    /\ ValidatedMapping
    /\ raw.d["track_assessment"] = PyStr("small_claims")
    /\ raw.d["claim_value_estimate"] = PyInt(50000)
    /\ validated.value.d["claim_value_estimate"] = PyInt(50000)
    /\ validated.value.d["track_assessment"] = PyStr("small_claims")

\* C16: when track_assessment is absent from the raw mapping, the validated
\* track is consistent with the normalized claim value by the breakpoints:
\* <= 10000 small_claims, <= 25000 fast_track, otherwise multi_track
C16_AbsentTrackConsistent ==
    (/\ ValidatedMapping
     /\ raw.d["track_assessment"].t = "absent")
    => validated.value.d["track_assessment"] =
            PyStr(TrackFromValue(validated.value.d["claim_value_estimate"].n))

\* a text without leading or trailing whitespace
Trimmed(x) == x.lead = 0 /\ x.trail = 0

\* C11: for pdf, doc/docx and txt alike, the text extract_text_from_file
\* returns has no leading or trailing whitespace.
C11_ExtractedTextTrimmed ==
    /\ Extracted => Trimmed(document_text)
    /\ (pc = "probed" /\ ~probe.raised) => Trimmed(probe.value)

\* the extraction of the uploaded file raises
ExtractionFails ==
    ExtractTextFromFile(request.content, secure_filename(request.filename)).raised

\* C12: every run of the upload request ends by returning a payload with a
\* boolean success field (no exception leaves the handler, and every step
\* moves the handler forward, so that it returns); when extraction fails or the
\* length check fails, the payload has success: false and an error message.
PayloadWhenDone ==
    /\ pc = "done"
        => /\ "success" \in DOMAIN response
           /\ response.success \in BOOLEAN
           /\ ~response.success => "error" \in DOMAIN response
    /\ (pc = "done" /\ Happened("extract") /\ ExtractionFails)
        => response = Failure("unreadable")
    /\ (pc = "done" /\ Extracted /\ StripText(document_text).core < 50)
        => response = Failure("insufficient_text")

\* the positions of the handler in the order the code passes them
Positions ==
    <<"start", "user", "read", "extract", "length", "analyze", "reply",
      "except", "store", "format", "chat", "respond", "done">>

PositionOf(p) == CHOOSE i \in DOMAIN Positions : Positions[i] = p

\* a step moves the handler forward: no position is passed twice
Advances ==
    /\ pc \in Range(Positions)
    /\ pc' \in Range(Positions) \cup {"probed"}
    /\ pc' # "probed" => PositionOf(pc') > PositionOf(pc)

C12_AlwaysAPayload == []PayloadWhenDone /\ [][Advances]_vars

C12_Witness ==
    /\ pc = "done"
    /\ Happened("store_document")
    /\ llm.kind = "parsed"
    /\ llm.value.t = "dict"
    /\ llm.value.d["legal_categories"] = PyInt(5)
    /\ response = Failure("unexpected")

\* C13: the DocumentAnalysis record is stored only after the pipeline has
\* produced both the AnalysisResult and the FormattedReport: the store of the
\* document analysis never precedes the call of format_defence_response
C13_StoreAfterFormat ==
    Happened("store_document") => Happened("format")

\* a step of the request after which the LLM call has failed or been answered
\* goes on as the code says: from the except clause straight to the fallback
\* generator, with no further call
StraightToFallback ==
    pc = "except" =>
        /\ events' = Append(events, "fallback")
        /\ pc' \in {"store", "done"}

\* the LLM is called at most once, and the validator has run only on a reply
\* that was received and parsed
OneCallOnly ==
    /\ LLMCalls <= 1
    /\ Happened("validate") => llm.kind \in {"parsed", "empty"}
    /\ (Happened("validate") /\ Happened("fallback")) =>
            JsonLoads(llm).value.t # "dict"
    /\ (Happened("llm_call") /\ llm.kind = "raises") =>
            /\ ~Happened("validate")
            /\ pc = "except" \/ Happened("fallback")

\* C14: in every run of analyze_skeleton_argument the LLM is called at most
\* once: a failed call is never retried and leads directly to the fallback
\* generator, and the validator runs only when the call succeeded
C14_SingleLLMCall == []OneCallOnly /\ [][StraightToFallback]_vars

C14_Witness ==
    /\ pc = "done"
    /\ llm.kind = "raises"
    /\ events = <<"extract", "llm_call", "fallback", "store_document",
                  "format", "store_chat">>
    /\ response.success

\* C17: an upload that answers success: false has persisted no
\* DocumentAnalysis record and no ChatMessage record; a DocumentAnalysis
\* record exists only for an upload that answered success: true
C17_FailurePersistsNothing ==
    (pc = "done" /\ ~response.success) => (documents = <<>> /\ chats = <<>>)

====
